---- MODULE Spec2Model ----
(***************************************************************************)
(* A model of utils.py of kaisha-island-rs: the month-step download loop   *)
(* (download_images_to_disk), the tiling and enhancement loop              *)
(* (crop_and_process_images), the configuration loader (load_cfg_file)     *)
(* and the command-line driver (main).                                     *)
(*                                                                         *)
(* Text is a sequence of one-character strings, so that formatting         *)
(* (strftime, f-strings) and parsing (strptime, splitext, endswith) are    *)
(* computed character by character.  Pixel coordinates are in units of     *)
(* 256 px, the edge of the default tile: tile_size=(256,256) is <<1,1>>.   *)
(***************************************************************************)
EXTENDS Integers, Sequences, FiniteSets, TLC

(***************************************************************************)
(* Text                                                                    *)
(***************************************************************************)
Digits == <<"0", "1", "2", "3", "4", "5", "6", "7", "8", "9">>

IsDigit(c) == \E i \in 1..10 : Digits[i] = c

DigitVal(c) == (CHOOSE i \in 1..10 : Digits[i] = c) - 1

\* int(text) for a non-empty run of digits
RECURSIVE ToInt(_)
ToInt(s) ==
  IF Len(s) = 0 THEN 0
  ELSE 10 * ToInt(SubSeq(s, 1, Len(s) - 1)) + DigitVal(s[Len(s)])

\* str(n) for n >= 0
RECURSIVE ToStr(_)
ToStr(n) ==
  IF n < 10 THEN <<Digits[n + 1]>>
  ELSE ToStr(n \div 10) \o <<Digits[(n % 10) + 1]>>

\* n formatted with at least w digits, zero-padded (%02d, %04d)
RECURSIVE ZeroPad(_, _)
ZeroPad(s, w) == IF Len(s) >= w THEN s ELSE ZeroPad(<<"0">> \o s, w)

UpperChars == <<"P", "N", "G", "J", "T", "I", "F", "E", "A", "B">>
LowerChars == <<"p", "n", "g", "j", "t", "i", "f", "e", "a", "b">>

\* str.lower(), on the letters the model's file names use
LowerChar(c) ==
  IF \E i \in 1..Len(UpperChars) : UpperChars[i] = c
  THEN LowerChars[CHOOSE i \in 1..Len(UpperChars) : UpperChars[i] = c]
  ELSE c

Lower(s) == [k \in 1..Len(s) |-> LowerChar(s[k])]

\* str.endswith(suffix)
EndsWith(s, suffix) ==
  /\ Len(s) >= Len(suffix)
  /\ SubSeq(s, Len(s) - Len(suffix) + 1, Len(s)) = suffix

\* the fields of s between the occurrences of sep (str.split)
RECURSIVE Split(_, _)
Split(s, sep) ==
  IF \E k \in 1..Len(s) : s[k] = sep
  THEN LET k == CHOOSE i \in 1..Len(s) :
                  s[i] = sep /\ \A m \in 1..(i - 1) : s[m] # sep
       IN  <<SubSeq(s, 1, k - 1)>> \o Split(SubSeq(s, k + 1, Len(s)), sep)
  ELSE <<s>>

(***************************************************************************)
(* Calendar dates: datetime.datetime at midnight, [year, month, day]       *)
(***************************************************************************)
IsLeap(y) == (y % 4 = 0) /\ ((y % 100 # 0) \/ (y % 400 = 0))

\* calendar.monthrange(year, month)[1]
DaysInMonth(y, m) ==
  IF m = 2 THEN (IF IsLeap(y) THEN 29 ELSE 28)
  ELSE IF m \in {4, 6, 9, 11} THEN 30 ELSE 31

DateOf(y, m, d) == [year |-> y, month |-> m, day |-> d]

\* a <= b and a > b on datetimes
DateLE(a, b) ==
  \/ a.year < b.year
  \/ a.year = b.year /\ a.month < b.month
  \/ a.year = b.year /\ a.month = b.month /\ a.day <= b.day

DateGT(a, b) == ~DateLE(a, b)

\* dt + relativedelta(months=1): the same day of the next month, or that
\* month's last day when it is shorter
AddMonth(dt) ==
  LET m == IF dt.month = 12 THEN 1 ELSE dt.month + 1
      y == IF dt.month = 12 THEN dt.year + 1 ELSE dt.year
      last == DaysInMonth(y, m)
  IN  DateOf(y, m, IF dt.day > last THEN last ELSE dt.day)

\* dt - datetime.timedelta(days=1)
SubDay(dt) ==
  IF dt.day > 1 THEN DateOf(dt.year, dt.month, dt.day - 1)
  ELSE IF dt.month > 1
       THEN DateOf(dt.year, dt.month - 1, DaysInMonth(dt.year, dt.month - 1))
       ELSE DateOf(dt.year - 1, 12, 31)

\* dt.strftime("%Y-%m-%d")
Strftime(dt) ==
  ZeroPad(ToStr(dt.year), 4) \o <<"-">> \o ZeroPad(ToStr(dt.month), 2)
    \o <<"-">> \o ZeroPad(ToStr(dt.day), 2)

AllDigits(s) == Len(s) > 0 /\ \A k \in 1..Len(s) : IsDigit(s[k])

\* whether datetime.datetime.strptime(s, "%Y-%m-%d") succeeds: %Y is four
\* digits, %m and %d one or two, and the day exists in the month
StrptimeOk(s) ==
  LET f == Split(s, "-")
  IN  /\ Len(f) = 3
      /\ AllDigits(f[1]) /\ Len(f[1]) = 4
      /\ AllDigits(f[2]) /\ Len(f[2]) \in {1, 2}
      /\ AllDigits(f[3]) /\ Len(f[3]) \in {1, 2}
      /\ ToInt(f[1]) >= 1
      /\ ToInt(f[2]) \in 1..12
      /\ ToInt(f[3]) >= 1
      /\ ToInt(f[3]) <= DaysInMonth(ToInt(f[1]), ToInt(f[2]))

\* datetime.datetime.strptime(s, "%Y-%m-%d")
Strptime(s) ==
  LET f == Split(s, "-") IN DateOf(ToInt(f[1]), ToInt(f[2]), ToInt(f[3]))

(***************************************************************************)
(* Rasters.  An image is [size |-> <<width, height>>, px |-> pixel at      *)
(* <<x, y>>], a pixel a tuple of channel values 0..255.                    *)
(***************************************************************************)
Coords(size) == (0..(size[1] - 1)) \X (0..(size[2] - 1))

\* Image.convert('RGB'): the first three channels, alpha dropped
ConvertRGB(img) ==
  [size |-> img.size,
   px   |-> [p \in Coords(img.size) |-> SubSeq(img.px[p], 1, 3)]]

\* matplotlib.pyplot.imsave of an 8-bit RGB array: an RGBA PNG, alpha 255
ImsaveContent(image) ==
  [decodable |-> TRUE,
   size |-> image.size,
   px   |-> [p \in Coords(image.size) |-> Append(image.px[p], 255)]]

\* Image.crop((left, upper, right, lower)); outside the source is black
Crop(img, box) ==
  LET size == <<box[3] - box[1], box[4] - box[2]>>
  IN  [size |-> size,
       px   |-> [p \in Coords(size) |->
                   LET q == <<box[1] + p[1], box[2] + p[2]>>
                   IN  IF q \in Coords(img.size) THEN img.px[q]
                       ELSE <<0, 0, 0>>]]

\* One channel of ImageEnhance.Brightness(tile).enhance(factor), which is
\* Image.blend(black, tile, factor): factor * value, truncated, clamped to
\* 255.  factor is the rational <<numerator, denominator>>.
BrightnessValue(v, factor) ==
  LET t == (factor[1] * v) \div factor[2]
  IN  IF t > 255 THEN 255 ELSE t

Brightness(img, factor) ==
  [size |-> img.size,
   px   |-> [p \in Coords(img.size) |->
               [b \in 1..3 |-> BrightnessValue(img.px[p][b], factor)]]]

\* a/b < c/d for positive b, d, by continued fractions (no wide products)
RECURSIVE LessFrac(_, _, _, _)
LessFrac(a, b, c, d) ==
  LET qa == a \div b
      qc == c \div d
      ra == a % b
      rc == c % d
  IN  IF qa # qc THEN qa < qc
      ELSE IF rc = 0 THEN FALSE
      ELSE IF ra = 0 THEN TRUE
      ELSE LessFrac(d, rc, b, ra)

\* ((c / 255.0) ** inv_gamma) * 255 < y + 1/2, for inv_gamma = 1.0 / gamma
\* and gamma the rational <<numerator, denominator>>
BelowHalf(c, y, gamma) ==
  CASE gamma = <<1, 1>> -> 2 * c < 2 * y + 1
    [] gamma = <<1, 2>> -> 2 * c * c < 255 * (2 * y + 1)
    [] gamma = <<2, 1>> -> 4 * 255 * c < (2 * y + 1) * (2 * y + 1)
    [] gamma = <<4, 5>> ->
         LET A == (2 * y + 1) * (2 * y + 1)
             B == 4 * c * c
         IN  IF c = 0 THEN TRUE ELSE LessFrac(B * c, A, 255 * A, B)

\* table = [((c / 255.0) ** inv_gamma) * 255 for c in range(256)], each
\* entry rounded to the nearest integer by Image.point
GammaEntry(c, gamma) ==
  CHOOSE y \in 0..255 :
    /\ BelowHalf(c, y, gamma)
    /\ y > 0 => ~BelowHalf(c, y - 1, gamma)

\* the gamma values the model calls with: 1.0, 0.5, 2.0 and GAMMA
Gammas == {<<1, 1>>, <<1, 2>>, <<2, 1>>, <<4, 5>>}

\* the 256-entry table of each gamma, computed once
Tables == [g \in Gammas |-> [c \in 0..255 |-> GammaEntry(c, g)]]

\* gamma_table = table * 3: entry k of the 768-entry table
GammaTable(k, gamma) == Tables[gamma][k % 256]

\* tile_bright.point(gamma_table): band b reads entries 256*b .. 256*b+255
Point(img, gamma) ==
  [size |-> img.size,
   px   |-> [p \in Coords(img.size) |->
               [b \in 1..3 |-> GammaTable(256 * (b - 1) + img.px[p][b], gamma)]]]

(***************************************************************************)
(* Bounds of the model                                                     *)
(***************************************************************************)
\* tile saves the file system refuses in one run
MaxFaults == 1
\* files in the directories crop_and_process_images is called on directly
MaxFiles == 3
\* calendar months the sampled date ranges span
WindowMonths == 5

(***************************************************************************)
(* Module constants of utils.py                                            *)
(***************************************************************************)
CONFIG_PATH == "config.yaml"
RAW_DATA_FOLDER == "raw_data/"
PROCESSED_DATA_FOLDER_256 == "processed_data_256/"
BRIGHTNESS_FACTOR == <<2, 1>>
GAMMA == <<4, 5>>
\* bbox_to_dimensions(KAISHA_ISLAND_BOUNDING_BOX, resolution=10) is about
\* 1289 x 834 px: five by three whole tiles of 256 px
KAISHA_SIZE == <<5, 3>>
DEFAULT_TILE_SIZE == <<1, 1>>
DEFAULT_TIME_INTERVAL ==
  << <<"2", "0", "2", "3", "-", "1", "-", "0", "1">>,
     <<"2", "0", "2", "3", "-", "1", "2", "-", "3", "1">> >>
PNG == <<".", "p", "n", "g">>
IMAGE_SUFFIXES ==
  { PNG, <<".", "j", "p", "g">>, <<".", "j", "p", "e", "g">>,
    <<".", "t", "i", "f">>, <<".", "t", "i", "f", "f">> }

(***************************************************************************)
(* State                                                                   *)
(***************************************************************************)
VARIABLES
  pc,           \* "main" | "call" | "download" | "crop" | "done" | "crashed"
  todo,         \* the calls still to make, the next one first
  frame,        \* the locals of the function running, or that ran last
  config_data,  \* what yaml.safe_load reads from the config file
  args,         \* the parsed command line: [download, process]
  disk,         \* directory |-> its entries [name, content], in listing order
  error,        \* the exception that ended the run, or "none"
  faults,       \* the save attempts (1st, 2nd, ...) the file system refuses
  attempts,     \* tile saves attempted so far
  calls,        \* history: the functions entered, in order
  requests,     \* history: each fetch, [interval, response]
  saves,        \* history: <<directory, name>> of each raw image saved
  visited,      \* history: the file names crop_and_process_images opened
  writes,       \* history: each tile written, [src, i, j, box, gamma_step, path]
  log           \* history: the lines printed

vars == <<pc, todo, frame, config_data, args, disk, error, faults, attempts,
          calls, requests, saves, visited, writes, log>>

NoFrame == [fn |-> "none"]

\* Optional values: None is the empty tuple, a value v is <<v>>
None == <<>>
Some(v) == <<v>>

(***************************************************************************)
(* The file system                                                         *)
(***************************************************************************)
Exists(d, dir) == dir \in DOMAIN d

\* os.makedirs(dir) when it does not exist
MakeDirs(d, dir) ==
  IF Exists(d, dir) THEN d
  ELSE [x \in DOMAIN d \cup {dir} |-> IF x = dir THEN <<>> ELSE d[x]]

\* os.listdir(dir)
ListDir(d, dir) == [k \in 1..Len(d[dir]) |-> d[dir][k].name]

HasFile(d, dir, name) ==
  Exists(d, dir) /\ \E k \in 1..Len(d[dir]) : d[dir][k].name = name

ReadFile(d, dir, name) ==
  d[dir][CHOOSE k \in 1..Len(d[dir]) : d[dir][k].name = name].content

\* writing a whole file: a new entry, or the old entry's content replaced
WriteFile(d, dir, name, content) ==
  LET entry == [name |-> name, content |-> content]
  IN  [d EXCEPT ![dir] =
         IF HasFile(d, dir, name)
         THEN [k \in 1..Len(@) |-> IF @[k].name = name THEN entry ELSE @[k]]
         ELSE Append(@, entry)]

(***************************************************************************)
(* load_cfg_file and main                                                  *)
(***************************************************************************)
\* The exception load_cfg_file raises on this config file, or "none": the
\* file is opened, then config_data['sentinelhub']['client_id'] and
\* ['client_secret'] are read; nothing else is checked.
LoadError(data) ==
  IF ~data.exists THEN "FileNotFoundError"
  ELSE IF "sentinelhub" \notin DOMAIN data.yaml THEN "KeyError"
  ELSE IF "client_id" \notin DOMAIN data.yaml.sentinelhub THEN "KeyError"
  ELSE IF "client_secret" \notin DOMAIN data.yaml.sentinelhub THEN "KeyError"
  ELSE "none"

\* the SHConfig load_cfg_file returns
LoadCfg(data) ==
  [sh_client_id     |-> data.yaml.sentinelhub.client_id,
   sh_client_secret |-> data.yaml.sentinelhub.client_secret]

DownloadCall(cfg, time_interval, output_dir) ==
  [fn |-> "download_images_to_disk", size |-> KAISHA_SIZE, cfg |-> cfg,
   time_interval |-> time_interval, output_dir |-> output_dir]

CropCall(input_dir, output_dir, tile_size, brightness_factor, gamma) ==
  [fn |-> "crop_and_process_images", input_dir |-> input_dir,
   output_dir |-> output_dir, tile_size |-> tile_size,
   brightness_factor |-> brightness_factor, gamma |-> gamma]

DefaultCrop(input_dir, output_dir) ==
  CropCall(input_dir, output_dir, DEFAULT_TILE_SIZE, BRIGHTNESS_FACTOR, GAMMA)

\* the calls main makes for the parsed arguments, in order
MainPlan(a, cfg) ==
  IF a.download = None /\ a.process = None
  THEN << DownloadCall(cfg, DEFAULT_TIME_INTERVAL, RAW_DATA_FOLDER),
          DefaultCrop(RAW_DATA_FOLDER, PROCESSED_DATA_FOLDER_256) >>
  ELSE (IF a.download # None
        THEN << DownloadCall(cfg, DEFAULT_TIME_INTERVAL, a.download[1]) >>
        ELSE << >>)
       \o
       (IF a.process # None
        THEN LET p == a.process[1]
             IN  IF Len(p) = 2 THEN << DefaultCrop(p[1], p[2]) >>
                 ELSE IF Len(p) = 1
                      THEN << DefaultCrop(p[1], PROCESSED_DATA_FOLDER_256) >>
                      ELSE << DefaultCrop(RAW_DATA_FOLDER,
                                          PROCESSED_DATA_FOLDER_256) >>
        ELSE << >>)

\* main catches nothing, and a step in it after an exception would be a
\* handler: the process would go on with the call that follows
RaiseHandled(e) ==
  /\ pc' = IF todo' = <<>> THEN "done" ELSE "call"
  /\ error' = e
  /\ frame' = frame

\* an uncaught exception: it leaves every function on the stack and ends
\* the process; the calls still in todo are never made
Raise(e) ==
  /\ pc' = "crashed"
  /\ error' = e
  /\ frame' = frame

\* a function returns to its caller, which makes its next call or ends
Return ==
  /\ pc' = IF todo = <<>> THEN "done" ELSE "call"
  /\ error' = error
  /\ frame' = frame

History == <<requests, saves, visited, writes, log>>

Main ==
  /\ pc = "main"
  /\ calls' = Append(calls, "load_cfg_file")
  /\ IF LoadError(config_data) # "none"
     THEN /\ todo' = todo
          /\ Raise(LoadError(config_data))
     ELSE /\ todo' = MainPlan(args, LoadCfg(config_data))
          /\ pc' = "call"
          /\ UNCHANGED <<error, frame>>
  /\ UNCHANGED <<config_data, args, disk, faults, attempts>>
  /\ UNCHANGED History

(***************************************************************************)
(* download_single_image and download_images_to_disk                       *)
(***************************************************************************)
\* the raster the imagery service returns for a request of this size
ServiceImage(size, time_interval) ==
  LET seed == 20 * Strptime(time_interval[1]).month
  IN  [size |-> size,
       px   |-> [p \in Coords(size) |->
                   LET v == (seed + 40 * p[1] + 90 * p[2]) % 256
                   IN  <<v, (v + 85) % 256, (v + 170) % 256>>]]

\* What request.get_data() can do: raise (transport or authentication
\* failure), return an empty list (no coverage), or return one raster.
\* Empty credentials never authenticate.
GetData(cfg, size, time_interval) ==
  {[kind |-> "raise", data |-> <<>>]}
    \cup
  (IF cfg.sh_client_id # "" /\ cfg.sh_client_secret # ""
   THEN {[kind |-> "return", data |-> <<>>],
         [kind |-> "return", data |-> <<ServiceImage(size, time_interval)>>]}
   ELSE {})

\* a loop that tests its condition only after the first iteration
LoopCondAfterFirst(current_date, end_date) ==
  requests = <<>> \/ DateLE(current_date, end_date)

\* while current_date <= end_date
LoopCond(current_date, end_date) == DateLE(current_date, end_date)

\* the month's end without the clamp to end_date
MonthEndUnclamped(current_date, end_date) == SubDay(AddMonth(current_date))

\* the fixed-duration policy: the interval ends where the next one starts
MonthEndNoTrim(current_date, end_date) ==
  LET month_end == AddMonth(current_date)
  IN  IF DateGT(month_end, end_date) THEN end_date ELSE month_end

\* month_end = current_date + relativedelta(months=1) - timedelta(days=1),
\* clamped to end_date
MonthEnd(current_date, end_date) ==
  LET month_end == SubDay(AddMonth(current_date))
  IN  IF DateGT(month_end, end_date) THEN end_date ELSE month_end

\* current_date += relativedelta(months=1)
NextDate(current_date) == AddMonth(current_date)

\* f"{current_month[0]}.png", the file name under output_dir
RawName(current_month) == current_month[1] \o PNG

DownloadEnter ==
  /\ pc = "call"
  /\ todo # <<>>
  /\ Head(todo).fn = "download_images_to_disk"
  /\ todo' = Tail(todo)
  /\ calls' = Append(calls, "download_images_to_disk")
  /\ LET c == Head(todo)
     IN  /\ disk' = MakeDirs(disk, c.output_dir)
         /\ IF StrptimeOk(c.time_interval[1]) /\ StrptimeOk(c.time_interval[2])
            THEN /\ pc' = "download"
                 /\ frame' = [fn |-> c.fn, size |-> c.size, cfg |-> c.cfg,
                              output_dir |-> c.output_dir,
                              start_date |-> Strptime(c.time_interval[1]),
                              end_date |-> Strptime(c.time_interval[2]),
                              current_date |-> Strptime(c.time_interval[1])]
                 /\ error' = error
            ELSE Raise("ValueError")
  /\ UNCHANGED <<config_data, args, faults, attempts>>
  /\ UNCHANGED History

\* one iteration of the while loop: plan the month, fetch it, save it
DownloadStep ==
  /\ pc = "download"
  /\ LoopCond(frame.current_date, frame.end_date)
  /\ todo' = todo
  /\ LET month_end == MonthEnd(frame.current_date, frame.end_date)
         current_month == <<Strftime(frame.current_date), Strftime(month_end)>>
     IN  \E r \in GetData(frame.cfg, frame.size, current_month) :
           /\ requests' = Append(requests,
                [interval |-> current_month,
                 response |-> IF r.kind = "raise" THEN "failure"
                              ELSE IF r.data = <<>> THEN "empty" ELSE "image"])
           /\ IF r.kind = "raise"
              THEN /\ Raise("DownloadFailedException")
                   /\ UNCHANGED <<disk, saves, log>>
              ELSE IF Len(r.data) = 0
              THEN \* image = request.get_data()[0]
                   /\ Raise("IndexError")
                   /\ UNCHANGED <<disk, saves, log>>
              ELSE /\ disk' = WriteFile(disk, frame.output_dir,
                                        RawName(current_month),
                                        ImsaveContent(r.data[1]))
                   /\ saves' = Append(saves,
                                 <<frame.output_dir, RawName(current_month)>>)
                   /\ log' = Append(log,
                               [line |-> "Image saved to",
                                path |-> <<frame.output_dir,
                                           RawName(current_month)>>])
                   /\ frame' = [frame EXCEPT
                                  !.current_date = NextDate(frame.current_date)]
                   /\ UNCHANGED <<pc, error>>
  /\ UNCHANGED <<config_data, args, faults, attempts, calls, visited, writes>>

DownloadExit ==
  /\ pc = "download"
  /\ ~LoopCond(frame.current_date, frame.end_date)
  /\ log' = Append(log, [line |-> "All images downloaded and saved to disk",
                         path |-> <<frame.output_dir, <<>>>>])
  /\ Return
  /\ UNCHANGED <<todo, config_data, args, disk, faults, attempts, calls,
                 requests, saves, visited, writes>>

(***************************************************************************)
(* crop_and_process_images                                                 *)
(***************************************************************************)
\* filename.lower().endswith(('.png', '.jpg', '.jpeg', '.tif', '.tiff'))
AllowListed(filename) ==
  \E suffix \in IMAGE_SUFFIXES : EndsWith(Lower(filename), suffix)

\* os.path.splitext(filename)[0]: up to the last dot, unless only dots
\* precede it
SplitextStem(filename) ==
  LET dots == {k \in 1..Len(filename) : filename[k] = "."}
  IN  IF dots = {} THEN filename
      ELSE LET dotIndex == CHOOSE k \in dots : \A m \in dots : m <= k
           IN  IF \E m \in 1..(dotIndex - 1) : filename[m] # "."
               THEN SubSeq(filename, 1, dotIndex - 1)
               ELSE filename

\* f"{os.path.splitext(filename)[0]}_tile_{i}_{j}.png"
TileFilename(filename, i, j) ==
  SplitextStem(filename) \o <<"_", "t", "i", "l", "e", "_">> \o ToStr(i)
    \o <<"_">> \o ToStr(j) \o PNG

\* a grid that rounds up, so that the remainder strip gets a tile too
TilesXCeil(size, tile_size) ==
  (size[1] + tile_size[1] - 1) \div tile_size[1]

\* tiles_x = width // tile_size[0] and tiles_y = height // tile_size[1]
TilesX(size, tile_size) == size[1] \div tile_size[1]
TilesY(size, tile_size) == size[2] \div tile_size[2]

\* the (i, j) of the nested loops, in the order they run
Grid(size, tile_size) ==
  LET tiles_x == TilesX(size, tile_size)
      tiles_y == TilesY(size, tile_size)
  IN  [k \in 1..(tiles_y * tiles_x) |->
         <<(k - 1) \div tiles_x, (k - 1) % tiles_x>>]

\* (left, upper, right, lower) of tile (i, j)
TileBox(i, j, tile_size) ==
  LET left == j * tile_size[1]
      upper == i * tile_size[2]
  IN  <<left, upper, left + tile_size[1], upper + tile_size[2]>>

\* the lookup applied whatever gamma is
GammaStepAlways(gamma) == TRUE

\* if gamma != 1.0
GammaStepRuns(gamma) == gamma # <<1, 1>>

\* the tile saved for (i, j): cropped, brightened, gamma-corrected
ProcessTile(img, i, j, tile_size, brightness_factor, gamma) ==
  LET tile == Crop(img, TileBox(i, j, tile_size))
      tile_bright == Brightness(tile, brightness_factor)
  IN  IF GammaStepRuns(gamma) THEN Point(tile_bright, gamma) ELSE tile_bright

\* what tile_bright.save(tile_save_path) writes: an RGB PNG
TileContent(image) ==
  [decodable |-> TRUE, size |-> image.size, px |-> image.px]

\* the write of tile number k of the file, as a history record
TileWrite(f, filename, img, k) ==
  LET ij == Grid(img.size, f.tile_size)[k]
  IN  [src |-> filename, i |-> ij[1], j |-> ij[2],
       box |-> TileBox(ij[1], ij[2], f.tile_size),
       gamma_step |-> GammaStepRuns(f.gamma),
       path |-> <<f.output_dir, TileFilename(filename, ij[1], ij[2])>>,
       image |-> ProcessTile(img, ij[1], ij[2], f.tile_size,
                             f.brightness_factor, f.gamma)]

\* every tile write of the file, in the order of the loops
TileWrites(f, filename, img) ==
  [k \in 1..Len(Grid(img.size, f.tile_size)) |->
     TileWrite(f, filename, img, k)]

\* the disk after the first n of the tile writes ws
RECURSIVE SaveTiles(_, _, _)
SaveTiles(d, ws, n) ==
  IF n = 0 THEN d
  ELSE WriteFile(SaveTiles(d, ws, n - 1), ws[n].path[1], ws[n].path[2],
                 TileContent(ws[n].image))

CropEnter ==
  /\ pc = "call"
  /\ todo # <<>>
  /\ Head(todo).fn = "crop_and_process_images"
  /\ todo' = Tail(todo)
  /\ calls' = Append(calls, "crop_and_process_images")
  /\ LET c == Head(todo)
     IN  /\ disk' = MakeDirs(disk, c.output_dir)
         /\ IF Exists(disk', c.input_dir)
            THEN /\ pc' = "crop"
                 /\ frame' = [fn |-> c.fn, input_dir |-> c.input_dir,
                              output_dir |-> c.output_dir,
                              tile_size |-> c.tile_size,
                              brightness_factor |-> c.brightness_factor,
                              gamma |-> c.gamma,
                              listing |-> ListDir(disk', c.input_dir)]
                 /\ error' = error
            ELSE Raise("FileNotFoundError")
  /\ UNCHANGED <<config_data, args, faults, attempts>>
  /\ UNCHANGED History

\* a handler that prints the error and raises it again
ExceptReraise(img_path, e) ==
  /\ log' = Append(log, [line |-> "Error processing", path |-> img_path])
  /\ pc' = "crashed"
  /\ error' = e

\* The handler of the try block: the error is printed with the path and
\* the loop goes on with the next file.
Except(img_path, e) ==
  /\ log' = Append(log, [line |-> "Error processing", path |-> img_path])
  /\ pc' = pc
  /\ error' = error

\* how many of the next `total` saves succeed before one is refused
Saved(total) ==
  IF \E k \in 1..total : (attempts + k) \in faults
  THEN (CHOOSE k \in 1..total :
          /\ (attempts + k) \in faults
          /\ \A m \in 1..(k - 1) : (attempts + m) \notin faults) - 1
  ELSE total

\* One iteration of the loop over os.listdir(input_dir).  A file that is
\* not allow-listed is passed over.  Otherwise it is opened; when it does
\* not decode, or when the file system refuses the save of a tile, the
\* exception is handled by Except and the rest of the file is left out.
CropFile ==
  /\ pc = "crop"
  /\ frame.listing # <<>>
  /\ frame' = [frame EXCEPT !.listing = Tail(frame.listing)]
  /\ LET filename == Head(frame.listing)
         img_path == <<frame.input_dir, filename>>
     IN  IF ~AllowListed(filename)
         THEN UNCHANGED <<pc, error, disk, attempts, visited, writes, log>>
         ELSE /\ visited' = Append(visited, filename)
              /\ IF ~ReadFile(disk, frame.input_dir, filename).decodable
                 THEN /\ Except(img_path, "UnidentifiedImageError")
                      /\ UNCHANGED <<disk, attempts, writes>>
                 ELSE LET img == ConvertRGB(ReadFile(disk, frame.input_dir,
                                                     filename))
                          ws == TileWrites(frame, filename, img)
                          total == Len(ws)
                          n == Saved(total)
                      IN  /\ attempts' = IF n < total THEN attempts + n + 1
                                         ELSE attempts + total
                          /\ disk' = SaveTiles(disk, ws, n)
                          /\ writes' = writes \o SubSeq(ws, 1, n)
                          /\ IF n < total
                             THEN Except(img_path, "OSError")
                             ELSE UNCHANGED <<pc, error, log>>
  /\ UNCHANGED <<todo, config_data, args, faults, calls, requests, saves>>

CropExit ==
  /\ pc = "crop"
  /\ frame.listing = <<>>
  /\ log' = Append(log, [line |-> "Processing completed",
                         path |-> <<frame.output_dir, <<>>>>])
  /\ Return
  /\ UNCHANGED <<todo, config_data, args, disk, faults, attempts, calls,
                 requests, saves, visited, writes>>

(***************************************************************************)
(* Inputs                                                                  *)
(***************************************************************************)
ValidCfg == [sh_client_id |-> "my-id", sh_client_secret |-> "my-secret"]

NoDisk == [dir \in {} |-> <<>>]

\* a test raster: every pixel differs from its neighbours
TestImage(size, seed) ==
  [decodable |-> TRUE,
   size |-> size,
   px   |-> [p \in Coords(size) |->
               LET v == (seed + 40 * p[1] + 90 * p[2]) % 256
               IN  <<v, (v + 85) % 256, (v + 170) % 256>>]]

Undecodable == [decodable |-> FALSE, size |-> <<0, 0>>, px |-> <<>>]

\* the files a directory may hold: two that share the stem "a", one with an
\* upper-case suffix, one that does not decode, one that is no image
FileUniverse ==
  { [name |-> <<"a", ".", "p", "n", "g">>, content |-> TestImage(<<4, 4>>, 10)],
    [name |-> <<"a", ".", "j", "p", "g">>, content |-> TestImage(<<5, 3>>, 77)],
    [name |-> <<"b", ".", "P", "N", "G">>, content |-> TestImage(<<3, 3>>, 200)],
    [name |-> <<"e", ".", "t", "i", "f">>, content |-> Undecodable],
    [name |-> <<"n", ".", "t", "x", "t">>, content |-> Undecodable] }

\* directories of up to n files, in every listing order
RECURSIVE Directories(_)
Directories(n) ==
  IF n = 0 THEN {<<>>}
  ELSE LET shorter == Directories(n - 1)
       IN  shorter \cup
           {Append(d, f) : d \in shorter, f \in FileUniverse}

DistinctNames(d) ==
  \A k, m \in 1..Len(d) : k # m => d[k].name # d[m].name

TileSizes == {<<2, 2>>, <<1, 2>>, <<3, 2>>}

\* (brightness_factor, gamma): the defaults 2.0 and 0.8, no change, and a
\* darkening with gamma above one
Enhancements ==
  { <<BRIGHTNESS_FACTOR, GAMMA>>, << <<1, 1>>, <<1, 1>> >>,
    << <<1, 2>>, <<2, 1>> >> }

WindowStart == DateOf(2023, 11, 1)

RECURSIVE MonthAt(_)
MonthAt(k) == IF k = 0 THEN WindowStart ELSE AddMonth(MonthAt(k - 1))

SampleDays == {1, 2, 15, 28, 29, 30, 31}

WindowDates ==
  { DateOf(MonthAt(k).year, MonthAt(k).month, d) :
      k \in 0..(WindowMonths - 1), d \in SampleDays }
  \cap
  { dt \in [year : {2023, 2024, 2025}, month : 1..12, day : 1..31] :
      dt.day <= DaysInMonth(dt.year, dt.month) }

\* the time_interval arguments: every pair of window dates (also start after
\* end), the default, and one whose start is no date
TimeIntervals ==
  { <<Strftime(a), Strftime(b)>> : a, b \in WindowDates }
  \cup
  { DEFAULT_TIME_INTERVAL,
    << <<"2", "0", "2", "3", "-", "0", "2", "-", "3", "0">>,
       <<"2", "0", "2", "3", "-", "0", "3", "-", "3", "1">> >> }

Credentials(id, secret) ==
  [exists |-> TRUE,
   yaml |-> [sentinelhub |-> [client_id |-> id, client_secret |-> secret]]]

\* config files: complete, with an empty value, with a missing key, absent
ConfigFiles ==
  { Credentials("my-id", "my-secret"),
    Credentials("", "my-secret"),
    Credentials("my-id", ""),
    [exists |-> TRUE, yaml |-> [sentinelhub |-> [client_id |-> "my-id"]]],
    [exists |-> TRUE, yaml |-> [sentinelhub |-> [client_secret |-> "my-secret"]]],
    [exists |-> TRUE, yaml |-> [other |-> "x"]],
    [exists |-> FALSE, yaml |-> <<>>] }

\* command lines: --download absent, bare or with a path; --process absent
\* or with zero, one or two directories
ArgSets ==
  [download : {None, Some(RAW_DATA_FOLDER), Some("dl/")},
   process  : {None, Some(<<>>), Some(<<"in/">>), Some(<<"in/", "out/">>)}]

InputDir ==
  << [name |-> <<"a", ".", "p", "n", "g">>, content |-> TestImage(<<4, 4>>, 10)],
     [name |-> <<"n", ".", "t", "x", "t">>, content |-> Undecodable] >>

\* the disk main starts on: in/ exists, raw_data/ does not
MainDisk == [dir \in {"in/"} |-> InputDir]

(***************************************************************************)
(* Specifications                                                          *)
(***************************************************************************)
\* the save attempts at which a refusal is tried
FaultPoints == {1, 2, 4, 5, 9, 17}

\* the refusals of one run: at most MaxFaults of the fault points
FaultPlans == {fp \in SUBSET FaultPoints : Cardinality(fp) <= MaxFaults}

Start(p, t, c, a, d, fp) ==
  /\ pc = p
  /\ todo = t
  /\ config_data = c
  /\ args = a
  /\ disk = d
  /\ frame = NoFrame
  /\ error = "none"
  /\ faults = fp
  /\ attempts = 0
  /\ calls = <<>>
  /\ requests = <<>>
  /\ saves = <<>>
  /\ visited = <<>>
  /\ writes = <<>>
  /\ log = <<>>

NoArgs == [download |-> None, process |-> None]

\* the program run from the command line
Init ==
  \E c \in ConfigFiles, a \in ArgSets, fp \in FaultPlans :
    Start("main", <<>>, c, a, MainDisk, fp)

Next ==
  \/ Main
  \/ DownloadEnter
  \/ DownloadStep
  \/ DownloadExit
  \/ CropEnter
  \/ CropFile
  \/ CropExit

Spec == Init /\ [][Next]_vars

\* download_images_to_disk called with a time_interval
InitDownload ==
  \E ti \in TimeIntervals :
    Start("call", <<DownloadCall(ValidCfg, ti, RAW_DATA_FOLDER)>>,
          Credentials("my-id", "my-secret"), NoArgs, NoDisk, {})

NextDownload ==
  \/ DownloadEnter
  \/ DownloadStep
  \/ DownloadExit

SpecDownload == InitDownload /\ [][NextDownload]_vars

\* crop_and_process_images called on a directory
InitCrop ==
  \E d \in {x \in Directories(MaxFiles) : DistinctNames(x)},
     ts \in TileSizes, e \in Enhancements, fp \in FaultPlans :
    Start("call", <<CropCall("in/", "out/", ts, e[1], e[2])>>,
          Credentials("my-id", "my-secret"), NoArgs,
          [dir \in {"in/"} |-> d], fp)

NextCrop ==
  \/ CropEnter
  \/ CropFile
  \/ CropExit

SpecCrop == InitCrop /\ [][NextCrop]_vars

\* crop_and_process_images on one image, for every channel value
InitPixel ==
  \E seed \in 0..255, ts \in {<<1, 1>>, <<2, 2>>},
     bf \in {<<1, 2>>, <<1, 1>>, <<2, 1>>}, g \in Gammas,
     fp \in {{}, {1}, {3}} :
    Start("call", <<CropCall("in/", "out/", ts, bf, g)>>,
          Credentials("my-id", "my-secret"), NoArgs,
          [dir \in {"in/"} |->
             << [name |-> <<"p", ".", "p", "n", "g">>,
                 content |-> TestImage(<<2, 2>>, seed)] >>], fp)

SpecPixel == InitPixel /\ [][NextCrop]_vars

(***************************************************************************)
(* Properties of the download loop                                         *)
(***************************************************************************)
InDownload == frame.fn = "download_images_to_disk"

\* date.toordinal(): the days from 0001-01-01
RECURSIVE DaysBeforeMonth(_, _)
DaysBeforeMonth(y, m) ==
  IF m = 1 THEN 0 ELSE DaysBeforeMonth(y, m - 1) + DaysInMonth(y, m - 1)

Ordinal(dt) ==
  365 * (dt.year - 1) + (dt.year - 1) \div 4 - (dt.year - 1) \div 100
    + (dt.year - 1) \div 400 + DaysBeforeMonth(dt.year, dt.month) + dt.day

\* the k-th interval requested, read back as the service reads it
ReqStart(k) == Strptime(requests[k].interval[1])
ReqEnd(k) == Strptime(requests[k].interval[2])

\* C1: for start_date <= end_date the intervals requested are well-formed
\* date strings in chronological order, the first starts at start_date,
\* every interval has start <= end and ends no later than end_date, each
\* following interval starts exactly one day after the previous one's end,
\* and when the function returns there is at least one interval and the last
\* one ends at end_date.
C1_IntervalsPartitionRange ==
  (InDownload /\ DateLE(frame.start_date, frame.end_date)) =>
    /\ \A k \in 1..Len(requests) :
         /\ StrptimeOk(requests[k].interval[1])
         /\ StrptimeOk(requests[k].interval[2])
         /\ Ordinal(ReqStart(k)) <= Ordinal(ReqEnd(k))
         /\ Ordinal(ReqEnd(k)) <= Ordinal(frame.end_date)
    /\ Len(requests) >= 1 => ReqStart(1) = frame.start_date
    /\ \A k \in 2..Len(requests) :
         Ordinal(ReqStart(k)) = Ordinal(ReqEnd(k - 1)) + 1
    /\ pc = "done" =>
         /\ Len(requests) >= 1
         /\ ReqEnd(Len(requests)) = frame.end_date

\* a run that returned after three or more intervals, started on a 31st
\* and had its last interval cut short by end_date
C1_Witness ==
  /\ InDownload
  /\ pc = "done"
  /\ Len(requests) >= 3
  /\ frame.start_date.day = 31
  /\ ReqEnd(Len(requests)) # SubDay(AddMonth(ReqStart(Len(requests))))

\* C2 as stated: a time_interval whose start is after its end makes
\* download_images_to_disk raise InvalidRangeError instead of returning, with
\* no fetch issued and no image file written.
C2_RaisesInvalidRange ==
  (InDownload /\ DateGT(frame.start_date, frame.end_date)
     /\ pc \in {"done", "crashed"}) =>
    /\ pc = "crashed"
    /\ error = "InvalidRangeError"
    /\ requests = <<>>
    /\ saves = <<>>

\* C2 as amended: a time_interval whose start is after its end issues no
\* fetch and writes no image file, and download_images_to_disk returns
\* normally: nothing is raised and the loop body never runs.
C2_EmptyRangeReturns ==
  (InDownload /\ DateGT(frame.start_date, frame.end_date)) =>
    /\ requests = <<>>
    /\ saves = <<>>
    /\ disk[frame.output_dir] = <<>>
    /\ error = "none"
    /\ pc \in {"download", "done"}
    /\ pc = "download" => ~ENABLED DownloadStep
    /\ pc = "done" =>
         log = <<[line |-> "All images downloaded and saved to disk",
                  path |-> <<frame.output_dir, <<>>>>]>>

C2_Witness ==
  /\ InDownload
  /\ DateGT(frame.start_date, frame.end_date)
  /\ pc = "done"
  /\ Len(log) = 1

\* C3: an empty response for one interval is not fatal: whenever a fetch
\* got an empty response the run has not crashed, no file was saved for
\* that interval, and a run that returned fetched every interval up to
\* end_date.
C3_EmptyResponseSkipped ==
  (\E k \in 1..Len(requests) : requests[k].response = "empty") =>
    /\ pc # "crashed"
    /\ error = "none"
    /\ \A k \in 1..Len(requests) :
         requests[k].response = "empty" =>
           \A m \in 1..Len(saves) :
             saves[m][2] # RawName(requests[k].interval)
    /\ pc = "done" => ReqEnd(Len(requests)) = frame.end_date

\* the month that is k - 1 months after dt's
KthMonth(dt, k) ==
  LET n == 12 * dt.year + (dt.month - 1) + (k - 1)
  IN  [year |-> n \div 12, month |-> (n % 12) + 1]

MonthAligned ==
  /\ InDownload
  /\ DateLE(frame.start_date, frame.end_date)
  /\ frame.start_date.day = 1
  /\ frame.end_date.day = DaysInMonth(frame.end_date.year, frame.end_date.month)

\* C7: when start_date is the first day of a month and end_date the last
\* day of the month N - 1 months later, the k-th interval requested runs
\* from the first to the last day of the k-th month of the range, and a run
\* that returns has requested exactly N intervals.
C7_OneIntervalPerMonth ==
  MonthAligned =>
    /\ \A k \in 1..Len(requests) :
         LET ym == KthMonth(frame.start_date, k)
         IN  requests[k].interval =
               << Strftime(DateOf(ym.year, ym.month, 1)),
                  Strftime(DateOf(ym.year, ym.month,
                                  DaysInMonth(ym.year, ym.month))) >>
    /\ pc = "done" =>
         Len(requests) = 12 * (frame.end_date.year - frame.start_date.year)
                           + (frame.end_date.month - frame.start_date.month) + 1

\* the default range: twelve intervals, January to December 2023
C7_Witness ==
  /\ MonthAligned
  /\ pc = "done"
  /\ Len(requests) = 12
  /\ requests[1].interval =
       << <<"2", "0", "2", "3", "-", "0", "1", "-", "0", "1">>,
          <<"2", "0", "2", "3", "-", "0", "1", "-", "3", "1">> >>
  /\ requests[12].interval =
       << <<"2", "0", "2", "3", "-", "1", "2", "-", "0", "1">>,
          <<"2", "0", "2", "3", "-", "1", "2", "-", "3", "1">> >>

(***************************************************************************)
(* Properties of the tiling loop                                           *)
(***************************************************************************)
InCrop == frame.fn = "crop_and_process_images"

\* the source image of a file of the input directory, as the loop decodes it
Source(filename) == ReadFile(disk, frame.input_dir, filename)

\* the positions in writes of the tiles of one source file
WritesOf(filename) == {k \in 1..Len(writes) : writes[k].src = filename}

\* the error lines printed for one source file
ErrorsOf(filename) ==
  {k \in 1..Len(log) :
     /\ log[k].line = "Error processing"
     /\ log[k].path = <<frame.input_dir, filename>>}

\* the pixels of a box
BoxPixels(box) == (box[1]..(box[3] - 1)) \X (box[2]..(box[4] - 1))

\* the grid cells whose whole tile lies inside an image of this size
WholeCells(size, tile_size) ==
  {c \in (0..size[2]) \X (0..size[1]) :
     /\ (c[2] + 1) * tile_size[1] <= size[1]
     /\ (c[1] + 1) * tile_size[2] <= size[2]}

\* C4: every tile written for an image is a grid cell (i, j) whose rectangle
\* [j*tw, (j+1)*tw) x [i*th, (i+1)*th) lies entirely inside the image, no
\* two tiles of one image share a pixel, and an image processed without
\* error gets exactly one tile for each whole cell, floor(width/tw) *
\* floor(height/th) of them, and none for a remainder strip.
C4_TileGrid ==
  InCrop =>
    \A n \in 1..Len(visited) :
      LET filename == visited[n]
          size == Source(filename).size
          tw == frame.tile_size[1]
          th == frame.tile_size[2]
          ws == WritesOf(filename)
      IN  /\ \A k \in ws :
               /\ <<writes[k].i, writes[k].j>> \in WholeCells(size, frame.tile_size)
               /\ writes[k].box = <<writes[k].j * tw, writes[k].i * th,
                                    (writes[k].j + 1) * tw, (writes[k].i + 1) * th>>
               /\ BoxPixels(writes[k].box) \subseteq Coords(size)
               /\ writes[k].image.size = frame.tile_size
          /\ \A k, m \in ws :
               k # m => BoxPixels(writes[k].box) \cap BoxPixels(writes[m].box) = {}
          /\ (Source(filename).decodable /\ ErrorsOf(filename) = {}) =>
               /\ {<<writes[k].i, writes[k].j>> : k \in ws}
                    = WholeCells(size, frame.tile_size)
               /\ Cardinality(ws) = (size[1] \div tw) * (size[2] \div th)

\* 4x4 with 2x2 tiles gives four tiles, 3x3 gives one and loses its strips
C4_Witness ==
  /\ InCrop
  /\ pc = "done"
  /\ frame.tile_size = <<2, 2>>
  /\ Cardinality(WritesOf(<<"a", ".", "p", "n", "g">>)) = 4
  /\ Cardinality(WritesOf(<<"b", ".", "P", "N", "G">>)) = 1
  /\ ErrorsOf(<<"b", ".", "P", "N", "G">>) = {}

\* the refusals that have struck so far
Struck == {a \in faults : a <= attempts}

\* C5: a failure of one file is caught and logged with its path and the run
\* goes on: crop_and_process_images never raises, a file that does not
\* decode or whose save is refused has one error line with its path and a
\* file without one has all its tiles written, there are as many error lines
\* as failures, the loop always has its next file to open or can return,
\* and the run ends normally having opened every allow-listed file of the
\* listing, in order.
C5_FaultIsolation ==
  InCrop =>
    /\ pc \in {"crop", "done"}
    /\ error = "none"
    /\ (pc = "crop" /\ frame.listing = <<>>) => ENABLED CropExit
    /\ (pc = "crop" /\ frame.listing # <<>>) =>
         HasFile(disk, frame.input_dir, Head(frame.listing))
    /\ visited = SelectSeq(SubSeq(ListDir(disk, frame.input_dir), 1,
                                  Len(disk[frame.input_dir]) - Len(frame.listing)),
                           AllowListed)
    /\ \A n \in 1..Len(visited) :
         /\ ~Source(visited[n]).decodable => Cardinality(ErrorsOf(visited[n])) = 1
         /\ Cardinality(ErrorsOf(visited[n])) <= 1
         /\ (Source(visited[n]).decodable /\ ErrorsOf(visited[n]) = {}) =>
              {<<writes[k].i, writes[k].j>> : k \in WritesOf(visited[n])}
                = WholeCells(Source(visited[n]).size, frame.tile_size)
    /\ Cardinality({k \in 1..Len(log) : log[k].line = "Error processing"})
         = Cardinality({n \in 1..Len(visited) : ~Source(visited[n]).decodable})
             + Cardinality(Struck)
    /\ pc = "done" =>
         /\ frame.listing = <<>>
         /\ log[Len(log)].line = "Processing completed"

\* a file that does not decode comes first, a refused save strikes too, and
\* a later file still gets all its tiles
C5_Witness ==
  /\ InCrop
  /\ pc = "done"
  /\ Len(visited) = 3
  /\ ~Source(visited[1]).decodable
  /\ Struck # {}
  /\ \E n \in 2..3 :
       /\ ErrorsOf(visited[n]) = {}
       /\ WritesOf(visited[n]) # {}

\* C8: with brightness_factor = 1.0 and gamma = 1.0 the gamma lookup is
\* not applied, and every channel of every pixel of every written tile, in
\* the history and in the file on disk, equals the channel of the pixel of
\* the source at the same place of the cropped region.
C8_IdentityEnhancement ==
  (InCrop /\ frame.brightness_factor = <<1, 1>> /\ frame.gamma = <<1, 1>>) =>
    \A k \in 1..Len(writes) :
      LET w == writes[k]
          src == Source(w.src)
      IN  /\ ~w.gamma_step
          /\ HasFile(disk, w.path[1], w.path[2])
          /\ \A p \in Coords(frame.tile_size) :
               \A b \in 1..3 :
                 /\ w.image.px[p][b] = src.px[<<w.box[1] + p[1], w.box[2] + p[2]>>][b]
                 /\ ReadFile(disk, w.path[1], w.path[2]).px[p][b] = w.image.px[p][b]

\* an identity run that wrote a 2x2 tile holding the channel value 255
C8_Witness ==
  /\ InCrop
  /\ pc = "done"
  /\ frame.brightness_factor = <<1, 1>>
  /\ frame.gamma = <<1, 1>>
  /\ frame.tile_size = <<2, 2>>
  /\ \E k \in 1..Len(writes) :
       \E p \in Coords(frame.tile_size) : writes[k].image.px[p][1] = 255

\* C10: within one run distinct (source file, row, col) triples are written
\* to distinct output paths, also for source files that share a stem.
C10_DistinctTilePaths ==
  \A k, m \in 1..Len(writes) :
    <<writes[k].src, writes[k].i, writes[k].j>>
        # <<writes[m].src, writes[m].i, writes[m].j>>
      => writes[k].path # writes[m].path

(***************************************************************************)
(* Properties of main                                                      *)
(***************************************************************************)
\* client_id or client_secret is missing from the config file, or empty
MissingOrEmpty(data) ==
  /\ data.exists
  /\ \/ "sentinelhub" \notin DOMAIN data.yaml
     \/ \E key \in {"client_id", "client_secret"} :
          \/ key \notin DOMAIN data.yaml.sentinelhub
          \/ data.yaml.sentinelhub[key] = ""

\* C6: a config file whose client_id or client_secret is missing or empty
\* stops main before any network call: no fetch is requested and neither
\* the download nor the tiling step is entered.
C6_BadConfigStopsStartup ==
  MissingOrEmpty(config_data) =>
    /\ requests = <<>>
    /\ \A k \in 1..Len(calls) : calls[k] = "load_cfg_file"

\* C9: a failed fetch is fatal and is not retried: the run has crashed, the
\* failing request is the last one issued and every earlier one returned an
\* image, no file was saved for the failing interval while the file of every
\* earlier interval is on disk as it was saved, and the tiling step has not
\* started.
C9_FetchFailureIsFatal ==
  (\E k \in 1..Len(requests) : requests[k].response = "failure") =>
    /\ pc = "crashed"
    /\ error = "DownloadFailedException"
    /\ requests[Len(requests)].response = "failure"
    /\ \A k \in 1..(Len(requests) - 1) : requests[k].response = "image"
    /\ Len(saves) = Len(requests) - 1
    /\ \A k \in 1..Len(saves) :
         /\ saves[k] = <<frame.output_dir, RawName(requests[k].interval)>>
         /\ HasFile(disk, saves[k][1], saves[k][2])
         /\ ReadFile(disk, saves[k][1], saves[k][2])
              = ImsaveContent(ServiceImage(frame.size, requests[k].interval))
    /\ ~HasFile(disk, frame.output_dir,
                RawName(requests[Len(requests)].interval))
    /\ \A k \in 1..Len(calls) : calls[k] # "crop_and_process_images"

\* the fourth fetch of a run of main fails, with the tiling step still to come
C9_Witness ==
  /\ Len(requests) = 4
  /\ requests[4].response = "failure"
  /\ Len(saves) = 3
  /\ todo # <<>>
  /\ calls[1] = "load_cfg_file"

====
